---- MODULE Spec2Model ----
(***************************************************************************)
(* A model of package reader (src/reader.go): Reader[S], a read-only,      *)
(* seekable cursor over a byte slice or string.                            *)
(*                                                                         *)
(* The Reader's fields s, off and lastRead are variables of the same name. *)
(* Every method is a pure operator from the Reader value (and the call's   *)
(* arguments) to the Reader value after the call and the returned values;  *)
(* one action per method applies it and records the call in `last`, and    *)
(* the call before it in `prev`.                                           *)
(***************************************************************************)
EXTENDS Integers, Sequences, FiniteSets, TLC

\* ------------------------------------------------------------------ bounds
\* longest buffer handed to New or Reset
MaxLen == 2
\* longest destination slice handed to Read or ReadAt
MaxBuf == 2
\* largest value of the position's integer type (int64 scaled down)
MaxInt64 == 7

MinInt64 == -MaxInt64 - 1

\* x reduced to the two's-complement range MinInt64..MaxInt64
Wrap(x) == ((x - MinInt64) % (2 * MaxInt64 + 2)) + MinInt64

Min(a, b) == IF a < b THEN a ELSE b

\* ------------------------------------------------------------- constants
opRead == -1
opInvalid == 0
opReadRune1 == 1
opReadRune2 == 2
opReadRune3 == 3
opReadRune4 == 4

SeekStart == 0
SeekCurrent == 1
SeekEnd == 2

RuneSelf == 128
RuneError == 65533

\* error values
Nil == "nil"
EOF == "EOF"
ErrShortWrite == "short write"
ErrNegativeOffset == "reader.Reader.ReadAt: negative offset"
ErrUnreadByte == "reader.Reader.UnreadByte: at beginning of slice or string"
ErrUnreadRune == "reader.Reader.UnreadRune: previous operation was not ReadRune"
ErrWhence == "reader.Reader.Seek: invalid whence"
ErrNegativePosition == "reader.Reader.Seek: negative position"
PanicWriteCount == "reader.Reader.WriteTo: invalid Write count"
PanicBounds == "panic: slice bounds out of range"
\* an error of the sink's own
ErrSink == "sink error"

\* ------------------------------------------------------------------ data
\* byte values the buffers are built from: an ASCII letter, a continuation
\* byte, and the lead bytes of a 2-, 3- and 4-byte encoding
Bytes == {65, 144, 195, 226, 240}

RECURSIVE SeqsOf(_, _)
SeqsOf(S, n) ==
    IF n = 0 THEN {<<>>}
    ELSE LET shorter == SeqsOf(S, n - 1)
         IN  shorter \cup {Append(q, b) : q \in {x \in shorter : Len(x) = n - 1}, b \in S}

\* complete 3- and 4-byte encodings, which the shortest buffers cannot hold
Rune3 == <<226, 144, 144>>
Rune4 == <<240, 144, 144, 144>>

\* every buffer of up to MaxLen bytes, and the long encodings alone, after
\* an ASCII byte and before one
Buffers ==
    SeqsOf(Bytes, MaxLen)
        \cup {Rune3, Rune3 \o <<65>>, Rune4, <<65>> \o Rune4}

\* s[from:]
SliceFrom(q, from) == SubSeq(q, from + 1, Len(q))

\* copy(dst, src) for a dst of length lenp: the bytes copied
Copy(lenp, src) == SubSeq(src, 1, Min(lenp, Len(src)))

\* ------------------------------------------------------- utf8.DecodeRune
\* the entry of utf8's table `first` for lead byte p0: the encoding's size
\* and the range accepted for its second byte; size 0 marks an invalid lead
First(p0) ==
    IF p0 < RuneSelf THEN [size |-> 1, lo |-> 0, hi |-> 0]
    ELSE IF p0 < 194 THEN [size |-> 0, lo |-> 0, hi |-> 0]
    ELSE IF p0 < 224 THEN [size |-> 2, lo |-> 128, hi |-> 191]
    ELSE IF p0 = 224 THEN [size |-> 3, lo |-> 160, hi |-> 191]
    ELSE IF p0 = 237 THEN [size |-> 3, lo |-> 128, hi |-> 159]
    ELSE IF p0 < 240 THEN [size |-> 3, lo |-> 128, hi |-> 191]
    ELSE IF p0 = 240 THEN [size |-> 4, lo |-> 144, hi |-> 191]
    ELSE IF p0 < 244 THEN [size |-> 4, lo |-> 128, hi |-> 191]
    ELSE IF p0 = 244 THEN [size |-> 4, lo |-> 128, hi |-> 143]
    ELSE [size |-> 0, lo |-> 0, hi |-> 0]

\* a continuation byte, 0x80..0xBF
IsCont(b) == 128 =< b /\ b =< 191

\* utf8.DecodeRune(p): the rune and the number of bytes of its encoding;
\* (RuneError, 1) for an encoding that is invalid or cut short
DecodeRune(p) ==
    IF Len(p) < 1 THEN [ch |-> RuneError, size |-> 0]
    ELSE LET x == First(p[1])
             bad == [ch |-> RuneError, size |-> 1]
         IN  IF x.size = 0 THEN bad
             ELSE IF x.size = 1 THEN [ch |-> p[1], size |-> 1]
             ELSE IF Len(p) < x.size THEN bad
             ELSE IF p[2] < x.lo \/ x.hi < p[2] THEN bad
             ELSE IF x.size = 2
                  THEN [ch |-> (p[1] % 32) * 64 + (p[2] % 64), size |-> 2]
             ELSE IF ~IsCont(p[3]) THEN bad
             ELSE IF x.size = 3
                  THEN [ch |-> (p[1] % 16) * 4096 + (p[2] % 64) * 64 + (p[3] % 64),
                        size |-> 3]
             ELSE IF ~IsCont(p[4]) THEN bad
             ELSE [ch |-> (p[1] % 8) * 262144 + (p[2] % 64) * 4096
                          + (p[3] % 64) * 64 + (p[4] % 64),
                   size |-> 4]

\* ---------------------------------------------------------------- Reader
\* A Reader value is [s, off, lastRead]. A method maps it to
\* [r |-> the Reader after the call, n, err, out]: n is the returned count,
\* byte, size or position, out the bytes delivered (for ReadRune, the rune).

\* the value New(q) points to, and what Reset(q) assigns to *r
New(q) == [s |-> q, off |-> 0, lastRead |-> opInvalid]

\* Reset that replaces the data and the position only
Reset_KeepsLastRead(r, q) ==
    [r |-> [New(q) EXCEPT !.lastRead = r.lastRead],
     n |-> 0, err |-> Nil, out |-> <<>>]

Reset(r, q) == [r |-> New(q), n |-> 0, err |-> Nil, out |-> <<>>]

\* Len without the test for a position at or past the end
LenOf_Signed(r) == Len(r.s) - r.off

LenOf(r) == IF r.off >= Len(r.s) THEN 0 ELSE Len(r.s) - r.off

\* Size that counts the unread bytes, as Len does
Size_Unread(r) == IF r.off >= Len(r.s) THEN 0 ELSE Len(r.s) - r.off

Size(r) == Len(r.s)

\* Read without the statement that clears lastRead
Read_KeepsLastRead(r, lenp) ==
    IF r.off >= Len(r.s)
    THEN [r |-> r, n |-> 0, err |-> EOF, out |-> <<>>]
    ELSE LET p == Copy(lenp, SliceFrom(r.s, r.off))
             n == Len(p)
         IN  [r |-> [r EXCEPT !.off = r.off + n,
                              !.lastRead = IF n > 0 THEN opRead ELSE r.lastRead],
              n |-> n, err |-> Nil, out |-> p]

\* Read that delivers the bytes and leaves the position where it was
Read_LeavesPosition(r, lenp) ==
    IF r.off >= Len(r.s)
    THEN [r |-> r, n |-> 0, err |-> EOF, out |-> <<>>]
    ELSE LET p == Copy(lenp, SliceFrom(r.s, r.off))
             n == Len(p)
         IN  [r |-> [r EXCEPT !.lastRead = IF n > 0 THEN opRead ELSE opInvalid],
              n |-> n, err |-> Nil, out |-> p]

\* Read that reports EOF along with the last bytes, when they do not fill p
Read_EOFWithTail(r, lenp) ==
    IF r.off >= Len(r.s)
    THEN [r |-> r, n |-> 0, err |-> EOF, out |-> <<>>]
    ELSE LET p == Copy(lenp, SliceFrom(r.s, r.off))
             n == Len(p)
         IN  [r |-> [r EXCEPT !.off = r.off + n,
                              !.lastRead = IF n > 0 THEN opRead ELSE opInvalid],
              n |-> n, err |-> IF n < lenp THEN EOF ELSE Nil, out |-> p]

Read(r, lenp) ==
    IF r.off >= Len(r.s)
    THEN [r |-> r, n |-> 0, err |-> EOF, out |-> <<>>]
    ELSE LET p == Copy(lenp, SliceFrom(r.s, r.off))
             n == Len(p)
         IN  [r |-> [r EXCEPT !.off = r.off + n,
                              !.lastRead = IF n > 0 THEN opRead ELSE opInvalid],
              n |-> n, err |-> Nil, out |-> p]

\* ReadAt that clears lastRead as the other reads do
ReadAt_ClearsLastRead(r, lenp, at) ==
    LET r0 == [r EXCEPT !.lastRead = opInvalid]
    IN  IF at < 0
        THEN [r |-> r0, n |-> 0, err |-> ErrNegativeOffset, out |-> <<>>]
        ELSE IF at >= Len(r.s)
        THEN [r |-> r0, n |-> 0, err |-> EOF, out |-> <<>>]
        ELSE LET p == Copy(lenp, SliceFrom(r.s, at))
             IN  [r |-> r0, n |-> Len(p),
                  err |-> IF Len(p) < lenp THEN EOF ELSE Nil, out |-> p]

\* ReadAt that reports EOF only when it delivered nothing
ReadAt_NoTailEOF(r, lenp, at) ==
    IF at < 0
    THEN [r |-> r, n |-> 0, err |-> ErrNegativeOffset, out |-> <<>>]
    ELSE IF at >= Len(r.s)
    THEN [r |-> r, n |-> 0, err |-> EOF, out |-> <<>>]
    ELSE LET p == Copy(lenp, SliceFrom(r.s, at))
         IN  [r |-> r, n |-> Len(p), err |-> Nil, out |-> p]

ReadAt(r, lenp, at) ==
    IF at < 0
    THEN [r |-> r, n |-> 0, err |-> ErrNegativeOffset, out |-> <<>>]
    ELSE IF at >= Len(r.s)
    THEN [r |-> r, n |-> 0, err |-> EOF, out |-> <<>>]
    ELSE LET p == Copy(lenp, SliceFrom(r.s, at))
         IN  [r |-> r, n |-> Len(p),
              err |-> IF Len(p) < lenp THEN EOF ELSE Nil, out |-> p]

ReadByte(r) ==
    IF r.off >= Len(r.s)
    THEN [r |-> [r EXCEPT !.lastRead = opInvalid], n |-> 0, err |-> EOF, out |-> <<>>]
    ELSE [r |-> [r EXCEPT !.off = r.off + 1, !.lastRead = opRead],
          n |-> r.s[r.off + 1], err |-> Nil, out |-> <<r.s[r.off + 1]>>]

\* UnreadByte that refuses only a negative position
UnreadByte_AtZero(r) ==
    IF r.off < 0
    THEN [r |-> r, n |-> 0, err |-> ErrUnreadByte, out |-> <<>>]
    ELSE [r |-> [r EXCEPT !.off = r.off - 1, !.lastRead = opInvalid],
          n |-> 0, err |-> Nil, out |-> <<>>]

\* UnreadByte that undoes only a read, as UnreadRune undoes only a ReadRune
UnreadByte_AfterRead(r) ==
    IF r.off =< 0 \/ r.lastRead = opInvalid
    THEN [r |-> r, n |-> 0, err |-> ErrUnreadByte, out |-> <<>>]
    ELSE [r |-> [r EXCEPT !.off = r.off - 1, !.lastRead = opInvalid],
          n |-> 0, err |-> Nil, out |-> <<>>]

UnreadByte(r) ==
    IF r.off =< 0
    THEN [r |-> r, n |-> 0, err |-> ErrUnreadByte, out |-> <<>>]
    ELSE [r |-> [r EXCEPT !.off = r.off - 1, !.lastRead = opInvalid],
          n |-> 0, err |-> Nil, out |-> <<>>]

\* ReadRune that takes the size of the encoding from its first byte alone
ReadRune_SizeOfLead(r) ==
    IF r.off >= Len(r.s)
    THEN [r |-> [r EXCEPT !.lastRead = opInvalid], n |-> 0, err |-> EOF, out |-> <<0>>]
    ELSE IF r.s[r.off + 1] < RuneSelf
    THEN [r |-> [r EXCEPT !.off = r.off + 1, !.lastRead = opReadRune1],
          n |-> 1, err |-> Nil, out |-> <<r.s[r.off + 1]>>]
    ELSE LET d == DecodeRune(SliceFrom(r.s, r.off))
             size == IF First(r.s[r.off + 1]).size = 0 THEN 1
                     ELSE First(r.s[r.off + 1]).size
         IN  [r |-> [r EXCEPT !.off = r.off + size, !.lastRead = size],
              n |-> size, err |-> Nil, out |-> <<d.ch>>]

ReadRune(r) ==
    IF r.off >= Len(r.s)
    THEN [r |-> [r EXCEPT !.lastRead = opInvalid], n |-> 0, err |-> EOF, out |-> <<0>>]
    ELSE IF r.s[r.off + 1] < RuneSelf
    THEN [r |-> [r EXCEPT !.off = r.off + 1, !.lastRead = opReadRune1],
          n |-> 1, err |-> Nil, out |-> <<r.s[r.off + 1]>>]
    ELSE LET d == DecodeRune(SliceFrom(r.s, r.off))
         IN  [r |-> [r EXCEPT !.off = r.off + d.size, !.lastRead = d.size],
              n |-> d.size, err |-> Nil, out |-> <<d.ch>>]

\* UnreadRune that steps back one byte, as UnreadByte does
UnreadRune_OneByte(r) ==
    IF r.lastRead \notin {opReadRune1, opReadRune2, opReadRune3, opReadRune4}
    THEN [r |-> r, n |-> 0, err |-> ErrUnreadRune, out |-> <<>>]
    ELSE [r |-> [r EXCEPT !.off = r.off - 1, !.lastRead = opInvalid],
          n |-> 0, err |-> Nil, out |-> <<>>]

\* UnreadRune that leaves lastRead as it found it
UnreadRune_KeepsLastRead(r) ==
    IF r.lastRead \notin {opReadRune1, opReadRune2, opReadRune3, opReadRune4}
    THEN [r |-> r, n |-> 0, err |-> ErrUnreadRune, out |-> <<>>]
    ELSE [r |-> [r EXCEPT !.off = r.off - r.lastRead],
          n |-> 0, err |-> Nil, out |-> <<>>]

UnreadRune(r) ==
    IF r.lastRead \notin {opReadRune1, opReadRune2, opReadRune3, opReadRune4}
    THEN [r |-> r, n |-> 0, err |-> ErrUnreadRune, out |-> <<>>]
    ELSE [r |-> [r EXCEPT !.off = r.off - r.lastRead, !.lastRead = opInvalid],
          n |-> 0, err |-> Nil, out |-> <<>>]

\* offset after the switch on whence: the sums are int64 sums
SeekOffset(r, offset, whence) ==
    IF whence = SeekCurrent THEN Wrap(offset + r.off)
    ELSE IF whence = SeekEnd THEN Wrap(offset + Len(r.s))
    ELSE offset

\* Seek that clears lastRead only when it moves the position
Seek_FailsUntouched(r, offset, whence) ==
    LET r0 == [r EXCEPT !.lastRead = opInvalid]
        abs == SeekOffset(r, offset, whence)
    IN  IF whence \notin {SeekStart, SeekCurrent, SeekEnd}
        THEN [r |-> r, n |-> 0, err |-> ErrWhence, out |-> <<>>]
        ELSE IF abs < 0
        THEN [r |-> r, n |-> 0, err |-> ErrNegativePosition, out |-> <<>>]
        ELSE [r |-> [r0 EXCEPT !.off = abs], n |-> abs, err |-> Nil, out |-> <<>>]

Seek(r, offset, whence) ==
    LET r0 == [r EXCEPT !.lastRead = opInvalid]
        abs == SeekOffset(r, offset, whence)
    IN  IF whence \notin {SeekStart, SeekCurrent, SeekEnd}
        THEN [r |-> r0, n |-> 0, err |-> ErrWhence, out |-> <<>>]
        ELSE IF abs < 0
        THEN [r |-> r0, n |-> 0, err |-> ErrNegativePosition, out |-> <<>>]
        ELSE [r |-> [r0 EXCEPT !.off = abs], n |-> abs, err |-> Nil, out |-> <<>>]

\* WriteTo that hands the sink an empty slice when nothing is left
WriteTo_EmptyWrite(r, m, werr) ==
    LET r0 == [r EXCEPT !.lastRead = opInvalid]
        sl == SliceFrom(r.s, r.off)
    IN  IF r.off >= Len(r.s)
        THEN [r |-> r0, n |-> 0, err |-> werr, out |-> <<>>, calls |-> 1]
        ELSE IF m > Len(sl)
        THEN [r |-> r0, n |-> 0, err |-> PanicWriteCount, out |-> sl,
              calls |-> 1]
        ELSE [r |-> [r0 EXCEPT !.off = r.off + m], n |-> m,
              err |-> IF Len(sl) # m /\ werr = Nil THEN ErrShortWrite ELSE werr,
              out |-> sl, calls |-> 1]

\* WriteTo that offers the sink the data from its start
WriteTo_FromStart(r, m, werr) ==
    LET r0 == [r EXCEPT !.lastRead = opInvalid]
        sl == r.s
    IN  IF r.off >= Len(r.s)
        THEN [r |-> r0, n |-> 0, err |-> Nil, out |-> <<>>, calls |-> 0]
        ELSE IF m > Len(sl)
        THEN [r |-> r0, n |-> 0, err |-> PanicWriteCount, out |-> sl,
              calls |-> 1]
        ELSE [r |-> [r0 EXCEPT !.off = r.off + m], n |-> m,
              err |-> IF Len(sl) # m /\ werr = Nil THEN ErrShortWrite ELSE werr,
              out |-> sl, calls |-> 1]

\* WriteTo that reports a short write whatever error the sink returned
WriteTo_ShortWriteWins(r, m, werr) ==
    LET r0 == [r EXCEPT !.lastRead = opInvalid]
        sl == SliceFrom(r.s, r.off)
    IN  IF r.off >= Len(r.s)
        THEN [r |-> r0, n |-> 0, err |-> Nil, out |-> <<>>, calls |-> 0]
        ELSE IF m > Len(sl)
        THEN [r |-> r0, n |-> 0, err |-> PanicWriteCount, out |-> sl,
              calls |-> 1]
        ELSE [r |-> [r0 EXCEPT !.off = r.off + m], n |-> m,
              err |-> IF Len(sl) # m THEN ErrShortWrite ELSE werr,
              out |-> sl, calls |-> 1]

\* WriteTo without the check of the count the sink returned
WriteTo_TrustsCount(r, m, werr) ==
    LET r0 == [r EXCEPT !.lastRead = opInvalid]
        sl == SliceFrom(r.s, r.off)
    IN  IF r.off >= Len(r.s)
        THEN [r |-> r0, n |-> 0, err |-> Nil, out |-> <<>>, calls |-> 0]
        ELSE [r |-> [r0 EXCEPT !.off = r.off + m], n |-> m,
              err |-> IF Len(sl) # m /\ werr = Nil THEN ErrShortWrite ELSE werr,
              out |-> sl, calls |-> 1]

\* WriteTo that reports EOF when nothing is left, as Read does
WriteTo_EOFAtEnd(r, m, werr) ==
    LET r0 == [r EXCEPT !.lastRead = opInvalid]
        sl == SliceFrom(r.s, r.off)
    IN  IF r.off >= Len(r.s)
        THEN [r |-> r0, n |-> 0, err |-> EOF, out |-> <<>>, calls |-> 0]
        ELSE IF m > Len(sl)
        THEN [r |-> r0, n |-> 0, err |-> PanicWriteCount, out |-> sl,
              calls |-> 1]
        ELSE [r |-> [r0 EXCEPT !.off = r.off + m], n |-> m,
              err |-> IF Len(sl) # m /\ werr = Nil THEN ErrShortWrite ELSE werr,
              out |-> sl, calls |-> 1]

\* w.Write returns (m, werr); out is what the sink was offered, calls the
\* number of calls of w.Write
WriteTo(r, m, werr) ==
    LET r0 == [r EXCEPT !.lastRead = opInvalid]
        sl == SliceFrom(r.s, r.off)
    IN  IF r.off >= Len(r.s)
        THEN [r |-> r0, n |-> 0, err |-> Nil, out |-> <<>>, calls |-> 0]
        ELSE IF r.off < 0
        THEN [r |-> r0, n |-> 0, err |-> PanicBounds, out |-> <<>>, calls |-> 0]
        ELSE IF m > Len(sl)
        THEN [r |-> r0, n |-> 0, err |-> PanicWriteCount, out |-> sl,
              calls |-> 1]
        ELSE [r |-> [r0 EXCEPT !.off = r.off + m], n |-> m,
              err |-> IF Len(sl) # m /\ werr = Nil THEN ErrShortWrite ELSE werr,
              out |-> sl, calls |-> 1]

\* io.Copy(dst, src) for a src that has Read only and a dst that has Write
\* only and takes all it is offered: the loop of Read into a buffer of lenp
\* bytes and Write of what was read, until Read returns an error. n is the
\* number of bytes written, err is nil when the error was EOF.
RECURSIVE CopyBuffer(_, _)
CopyBuffer(r, lenp) ==
    LET rd == Read(r, lenp)
        wrote == IF rd.n > 0 THEN 1 ELSE 0
    IN  IF rd.err # Nil
        THEN [r |-> rd.r, n |-> rd.n,
              err |-> IF rd.err = EOF THEN Nil ELSE rd.err,
              out |-> rd.out, calls |-> wrote]
        ELSE LET rest == CopyBuffer(rd.r, lenp)
             IN  [r |-> rest.r, n |-> rd.n + rest.n, err |-> rest.err,
                  out |-> rd.out \o rest.out, calls |-> wrote + rest.calls]

\* ------------------------------------------------------------ goroutines
\* number of goroutines that call ReadAt (or Read) at the same time
NThreads == 2

\* goroutine 0 is the one that calls a method that moves the cursor
Goroutines == 0 .. NThreads

\* a goroutine that has not made its call
Idle == [op |-> "idle", pc |-> "idle", a |-> 0, b |-> 0, werr |-> Nil,
         n |-> 0, err |-> Nil, out |-> <<>>, x |-> 0, acc |-> {}]

\* goroutine g, about to execute line pc of method op
Go(op, pc, a, b, werr) ==
    [Idle EXCEPT !.op = op, !.pc = pc, !.a = a, !.b = b, !.werr = werr]

\* g has read, or written, the fields named
Reads(g, fields) == [g EXCEPT !.acc = @ \cup {<<f, "r">> : f \in fields}]
Writes(g, fields) == [g EXCEPT !.acc = @ \cup {<<f, "w">> : f \in fields}]

\* g returns
Return(g, n, err, out) ==
    [g EXCEPT !.pc = "done", !.n = n, !.err = err, !.out = out]

\* One statement of a method, executed by goroutine g on the Reader r: the
\* Reader and the goroutine afterwards. g.pc is the line of src/reader.go the
\* goroutine is about to execute; g.n, g.out and g.x are its locals.

ReadSteps(r, g) ==
    CASE g.pc = "L62" ->
            IF r.off >= Len(r.s)
            THEN [r |-> r, g |-> Return(Reads(g, {"off", "s"}), 0, EOF, <<>>)]
            ELSE [r |-> r, g |-> [Reads(g, {"off", "s"}) EXCEPT !.pc = "L66"]]
      [] g.pc = "L66" ->
            [r |-> [r EXCEPT !.lastRead = opInvalid],
             g |-> [Writes(g, {"lastRead"}) EXCEPT !.pc = "L67"]]
      [] g.pc = "L67" ->
            IF r.off > Len(r.s)
            THEN [r |-> r, g |-> Return(Reads(g, {"off", "s"}), 0, PanicBounds, <<>>)]
            ELSE LET p == Copy(g.a, SliceFrom(r.s, r.off))
                 IN  [r |-> r,
                      g |-> [Reads(g, {"off", "s"}) EXCEPT
                                !.pc = "L68", !.n = Len(p), !.out = p]]
      [] g.pc = "L68" ->
            \* r.off += int64(n): the load
            [r |-> r, g |-> [Reads(g, {"off"}) EXCEPT !.pc = "L68s", !.x = r.off]]
      [] g.pc = "L68s" ->
            \* r.off += int64(n): the store
            [r |-> [r EXCEPT !.off = g.x + g.n],
             g |-> [Writes(g, {"off"}) EXCEPT !.pc = "L69"]]
      [] g.pc = "L69" ->
            IF g.n > 0
            THEN [r |-> [r EXCEPT !.lastRead = opRead],
                  g |-> Return(Writes(g, {"lastRead"}), g.n, Nil, g.out)]
            ELSE [r |-> r, g |-> Return(g, g.n, Nil, g.out)]

\* ReadAt that reads from the cursor's position, as Read does
ReadAtSteps_FromCursor(r, g) ==
    CASE g.pc = "L78" ->
            IF g.b < 0
            THEN [r |-> r, g |-> Return(g, 0, ErrNegativeOffset, <<>>)]
            ELSE [r |-> r, g |-> [g EXCEPT !.pc = "L82"]]
      [] g.pc = "L82" ->
            IF r.off >= Len(r.s)
            THEN [r |-> r, g |-> Return(Reads(g, {"off", "s"}), 0, EOF, <<>>)]
            ELSE [r |-> r, g |-> [Reads(g, {"off", "s"}) EXCEPT !.pc = "L86"]]
      [] g.pc = "L86" ->
            LET p == Copy(g.a, SliceFrom(r.s, r.off))
            IN  [r |-> r,
                 g |-> [Reads(g, {"off", "s"}) EXCEPT
                           !.pc = "L87", !.n = Len(p), !.out = p]]
      [] g.pc = "L87" ->
            [r |-> r,
             g |-> Return(g, g.n, IF g.n < g.a THEN EOF ELSE Nil, g.out)]

ReadAtSteps(r, g) ==
    CASE g.pc = "L78" ->
            IF g.b < 0
            THEN [r |-> r, g |-> Return(g, 0, ErrNegativeOffset, <<>>)]
            ELSE [r |-> r, g |-> [g EXCEPT !.pc = "L82"]]
      [] g.pc = "L82" ->
            IF g.b >= Len(r.s)
            THEN [r |-> r, g |-> Return(Reads(g, {"s"}), 0, EOF, <<>>)]
            ELSE [r |-> r, g |-> [Reads(g, {"s"}) EXCEPT !.pc = "L86"]]
      [] g.pc = "L86" ->
            LET p == Copy(g.a, SliceFrom(r.s, g.b))
            IN  [r |-> r,
                 g |-> [Reads(g, {"s"}) EXCEPT !.pc = "L87", !.n = Len(p), !.out = p]]
      [] g.pc = "L87" ->
            [r |-> r,
             g |-> Return(g, g.n, IF g.n < g.a THEN EOF ELSE Nil, g.out)]

ReadByteSteps(r, g) ==
    CASE g.pc = "L95" ->
            [r |-> [r EXCEPT !.lastRead = opInvalid],
             g |-> [Writes(g, {"lastRead"}) EXCEPT !.pc = "L96"]]
      [] g.pc = "L96" ->
            IF r.off >= Len(r.s)
            THEN [r |-> r, g |-> Return(Reads(g, {"off", "s"}), 0, EOF, <<>>)]
            ELSE [r |-> r, g |-> [Reads(g, {"off", "s"}) EXCEPT !.pc = "L100"]]
      [] g.pc = "L100" ->
            [r |-> r,
             g |-> [Reads(g, {"off", "s"}) EXCEPT !.pc = "L101", !.n = r.s[r.off + 1]]]
      [] g.pc = "L101" ->
            [r |-> [r EXCEPT !.off = r.off + 1],
             g |-> [Writes(Reads(g, {"off"}), {"off"}) EXCEPT !.pc = "L102"]]
      [] g.pc = "L102" ->
            [r |-> [r EXCEPT !.lastRead = opRead],
             g |-> Return(Writes(g, {"lastRead"}), g.n, Nil, <<g.n>>)]

ReadRuneSteps(r, g) ==
    CASE g.pc = "L119" ->
            [r |-> r,
             g |-> [Reads(g, {"off", "s"}) EXCEPT
                       !.pc = IF r.off >= Len(r.s) THEN "L120" ELSE "L124"]]
      [] g.pc = "L120" ->
            [r |-> [r EXCEPT !.lastRead = opInvalid],
             g |-> Return(Writes(g, {"lastRead"}), 0, EOF, <<0>>)]
      [] g.pc = "L124" ->
            [r |-> r,
             g |-> [Reads(g, {"off", "s"}) EXCEPT
                       !.pc = IF r.s[r.off + 1] < RuneSelf THEN "L125" ELSE "L130",
                       !.x = r.s[r.off + 1]]]
      [] g.pc = "L125" ->
            [r |-> [r EXCEPT !.off = r.off + 1],
             g |-> [Writes(Reads(g, {"off"}), {"off"}) EXCEPT !.pc = "L126"]]
      [] g.pc = "L126" ->
            [r |-> [r EXCEPT !.lastRead = opReadRune1],
             g |-> Return(Writes(g, {"lastRead"}), 1, Nil, <<g.x>>)]
      [] g.pc = "L130" ->
            LET d == DecodeRune(SliceFrom(r.s, r.off))
            IN  [r |-> r,
                 g |-> [Reads(g, {"off", "s"}) EXCEPT
                           !.pc = "L131", !.n = d.size, !.out = <<d.ch>>]]
      [] g.pc = "L131" ->
            [r |-> [r EXCEPT !.off = r.off + g.n],
             g |-> [Writes(Reads(g, {"off"}), {"off"}) EXCEPT !.pc = "L132"]]
      [] g.pc = "L132" ->
            [r |-> [r EXCEPT !.lastRead = g.n],
             g |-> Return(Writes(g, {"lastRead"}), g.n, Nil, g.out)]

\* g.a is offset, g.b is whence
SeekSteps(r, g) ==
    CASE g.pc = "L151" ->
            [r |-> [r EXCEPT !.lastRead = opInvalid],
             g |-> [Writes(g, {"lastRead"}) EXCEPT !.pc = "L152"]]
      [] g.pc = "L152" ->
            IF g.b \notin {SeekStart, SeekCurrent, SeekEnd}
            THEN [r |-> r, g |-> Return(g, 0, ErrWhence, <<>>)]
            ELSE IF g.b = SeekCurrent
            THEN [r |-> r,
                  g |-> [Reads(g, {"off"}) EXCEPT
                            !.pc = "L162", !.x = Wrap(g.a + r.off)]]
            ELSE IF g.b = SeekEnd
            THEN [r |-> r,
                  g |-> [Reads(g, {"s"}) EXCEPT
                            !.pc = "L162", !.x = Wrap(g.a + Len(r.s))]]
            ELSE [r |-> r, g |-> [g EXCEPT !.pc = "L162", !.x = g.a]]
      [] g.pc = "L162" ->
            IF g.x < 0
            THEN [r |-> r, g |-> Return(g, 0, ErrNegativePosition, <<>>)]
            ELSE [r |-> r, g |-> [g EXCEPT !.pc = "L166"]]
      [] g.pc = "L166" ->
            [r |-> [r EXCEPT !.off = g.x],
             g |-> Return(Writes(g, {"off"}), g.x, Nil, <<>>)]

\* the sink accepts at most g.a bytes and returns the error g.werr
WriteToSteps(r, g) ==
    CASE g.pc = "L172" ->
            [r |-> [r EXCEPT !.lastRead = opInvalid],
             g |-> [Writes(g, {"lastRead"}) EXCEPT !.pc = "L173"]]
      [] g.pc = "L173" ->
            IF r.off >= Len(r.s)
            THEN [r |-> r, g |-> Return(Reads(g, {"off", "s"}), 0, Nil, <<>>)]
            ELSE [r |-> r, g |-> [Reads(g, {"off", "s"}) EXCEPT !.pc = "L177"]]
      [] g.pc = "L177" ->
            [r |-> r,
             g |-> [Reads(g, {"off", "s"}) EXCEPT
                       !.pc = "L178", !.out = SliceFrom(r.s, r.off)]]
      [] g.pc = "L178" ->
            [r |-> r, g |-> [g EXCEPT !.pc = "L183", !.n = Min(g.a, Len(g.out))]]
      [] g.pc = "L183" ->
            [r |-> [r EXCEPT !.off = r.off + g.n],
             g |-> [Writes(Reads(g, {"off"}), {"off"}) EXCEPT !.pc = "L185"]]
      [] g.pc = "L185" ->
            [r |-> r,
             g |-> Return(g, g.n,
                          IF Len(g.out) # g.n /\ g.werr = Nil
                          THEN ErrShortWrite ELSE g.werr,
                          g.out)]

\* ------------------------------------------------------------ the caller
VARIABLES
    s,          \* r.s
    off,        \* r.off
    lastRead,   \* r.lastRead
    last,       \* the latest call: method, arguments, results, and
                \* r.off and r.lastRead as they were when it was made
    prev,       \* the call before it, when that was a ReadRune or an
                \* UnreadRune that returned no error ("other" otherwise)
    w,          \* the io.Writer of the latest WriteTo or io.Copy made with
                \* a sink of its own: the number of Write calls it got
                \* and the bytes it has taken
    th          \* the goroutines calling methods of the one Reader at the
                \* same time: per goroutine the method, where it stands in
                \* it, its arguments and locals, and the fields it has
                \* read and written

vars == <<s, off, lastRead, last, prev, th, w>>

\* *r
R == [s |-> s, off |-> off, lastRead |-> lastRead]

\* arguments the caller passes
BufLens == 0 .. MaxBuf
ReadAtOffsets == -1 .. Len(s) + 1
SeekOffsets == {MinInt64, -1, 0, 1, MaxInt64}
Whences == {SeekStart, SeekCurrent, SeekEnd, 3}
SinkErrs == {Nil, ErrSink}
ResetBuffers == {<<>>, <<65>>, <<195, 144>>, <<226, 144, 144>>}

NoArgs == [a |-> 0, b |-> 0, werr |-> Nil, q |-> <<>>]

NoRune == [op |-> "other", n |-> 0, out |-> <<>>, off0 |-> 0]

\* a sink no Write has been made to
EmptySink == [calls |-> 0, buf |-> <<>>]

\* one goroutine has the Reader to itself
Alone == \A i \in Goroutines : th[i].op = "idle"

\* the call `op` with arguments `args` returned `res`
Call(op, args, res) ==
    /\ s' = res.r.s
    /\ off' = res.r.off
    /\ lastRead' = res.r.lastRead
    /\ last' = [op |-> op, a |-> args.a, b |-> args.b, werr |-> args.werr,
                q |-> args.q, n |-> res.n, err |-> res.err, out |-> res.out,
                off0 |-> off, lastRead0 |-> lastRead]
    /\ prev' = IF last.op \in {"ReadRune", "UnreadRune"} /\ last.err = Nil
               THEN [op |-> last.op, n |-> last.n, out |-> last.out,
                     off0 |-> last.off0]
               ELSE NoRune
    /\ UNCHANGED <<th, w>>

Init ==
    /\ \E q \in Buffers :
          /\ s = New(q).s
          /\ off = New(q).off
          /\ lastRead = New(q).lastRead
    /\ last = [op |-> "New", a |-> 0, b |-> 0, werr |-> Nil, q |-> <<>>,
               n |-> 0, err |-> Nil, out |-> <<>>,
               off0 |-> 0, lastRead0 |-> opInvalid]
    /\ prev = NoRune
    /\ th = [g \in Goroutines |-> Idle]
    /\ w = EmptySink

DoRead ==
    \E lenp \in BufLens :
        /\ Alone
        /\ Call("Read", [NoArgs EXCEPT !.a = lenp], Read(R, lenp))

DoReadAt ==
    \E lenp \in BufLens, at \in ReadAtOffsets :
        /\ Alone
        /\ Call("ReadAt", [NoArgs EXCEPT !.a = lenp, !.b = at],
                ReadAt(R, lenp, at))

DoReadByte ==
    /\ Alone
    /\ Call("ReadByte", NoArgs, ReadByte(R))

DoUnreadByte ==
    /\ Alone
    /\ Call("UnreadByte", NoArgs, UnreadByte(R))

DoReadRune ==
    /\ Alone
    /\ Call("ReadRune", NoArgs, ReadRune(R))

DoUnreadRune ==
    /\ Alone
    /\ Call("UnreadRune", NoArgs, UnreadRune(R))

DoSeek ==
    \E offset \in SeekOffsets, whence \in Whences :
        /\ Alone
        /\ Call("Seek", [NoArgs EXCEPT !.a = offset, !.b = whence],
                Seek(R, offset, whence))

\* a sink that keeps to io.Writer: it accepts 0..len(p) bytes of the p offered
DoWriteTo ==
    \E m \in 0 .. LenOf(R), werr \in SinkErrs :
        /\ Alone
        /\ LenOf(R) = 0 => (m = 0 /\ werr = Nil)
        /\ Call("WriteTo", [NoArgs EXCEPT !.a = m, !.werr = werr],
                WriteTo(R, m, werr))

DoReset ==
    \E q \in ResetBuffers :
        /\ Alone
        /\ Call("Reset", [NoArgs EXCEPT !.q = q], Reset(R, q))

Next ==
    \/ DoRead
    \/ DoReadAt
    \/ DoReadByte
    \/ DoUnreadByte
    \/ DoReadRune
    \/ DoUnreadRune
    \/ DoSeek
    \/ DoWriteTo
    \/ DoReset

Spec == Init /\ [][Next]_vars

\* ------------------------------------------------------------- the sink
\* The caller drains the Reader into a sink of its own, by WriteTo or by
\* io.Copy's loop of Reads, and seeks in between.

\* the draining call `op` returned `res`, and the sink has taken `taken`
Drain(op, args, res, taken) ==
    /\ s' = res.r.s
    /\ off' = res.r.off
    /\ lastRead' = res.r.lastRead
    /\ last' = [op |-> op, a |-> args.a, b |-> args.b, werr |-> args.werr,
                q |-> args.q, n |-> res.n, err |-> res.err, out |-> res.out,
                off0 |-> off, lastRead0 |-> lastRead]
    /\ prev' = NoRune
    /\ w' = [calls |-> res.calls, buf |-> taken]
    /\ UNCHANGED th

\* WriteTo(w) for a sink that reports m bytes taken, up to one more than it
\* was offered, and the error werr
SinkWriteTo ==
    \E m \in 0 .. LenOf(R) + 1, werr \in SinkErrs :
        /\ Alone
        /\ Drain("WriteTo", [NoArgs EXCEPT !.a = m, !.werr = werr],
                 WriteTo(R, m, werr), Copy(m, WriteTo(R, m, werr).out))

\* io.Copy(justWriter{w}, justReader{r}) with a buffer of lenp bytes
SinkCopy ==
    \E lenp \in 1 .. MaxBuf :
        /\ Alone
        /\ Drain("Copy", [NoArgs EXCEPT !.a = lenp],
                 CopyBuffer(R, lenp), CopyBuffer(R, lenp).out)

\* r.Seek(p, io.SeekStart) to a position up to one past the end
SinkSeek ==
    \E p \in 0 .. Len(s) + 1 :
        /\ Alone
        /\ Call("Seek", [NoArgs EXCEPT !.a = p, !.b = SeekStart],
                Seek(R, p, SeekStart))

\* WriteTo(w) for a sink that reports any count: one below zero, 0 .. the
\* number of bytes offered, or one more than that
BadSinkWriteTo ==
    \E m \in -1 .. LenOf(R) + 1, werr \in SinkErrs :
        /\ Alone
        /\ Drain("WriteTo", [NoArgs EXCEPT !.a = m, !.werr = werr],
                 WriteTo(R, m, werr), Copy(m, WriteTo(R, m, werr).out))

NextSink ==
    \/ SinkWriteTo
    \/ SinkCopy
    \/ SinkSeek

SpecSink == Init /\ [][NextSink]_vars

NextBadSink ==
    \/ BadSinkWriteTo
    \/ SinkSeek

SpecBadSink == Init /\ [][NextBadSink]_vars

\* ------------------------------------------- calls made at the same time
\* The tests TestReaderAtConcurrent and TestEmptyReaderConcurrent: a Reader
\* is set up by one goroutine, and then goroutines that share it make one
\* call each, a statement at a time, in any order.

ConcBuffers == {<<>>, <<65>>, <<195, 144>>, <<65, 195, 144>>}

\* the Reader the goroutines share: New(q), a Seek to any position up to one
\* past the end, and possibly a ReadRune
ConcStarts ==
    LET sought == {Seek(New(q), p, SeekStart).r :
                      q \in ConcBuffers, p \in 0 .. MaxLen + 1}
    IN  {r \in sought : r.off =< Len(r.s) + 1}
            \cup {ReadRune(r).r : r \in {x \in sought : x.off < Len(x.s)}}

InitConc ==
    /\ \E r \in ConcStarts :
          /\ s = r.s
          /\ off = r.off
          /\ lastRead = r.lastRead
    /\ last = [op |-> "New", a |-> 0, b |-> 0, werr |-> Nil, q |-> <<>>,
               n |-> 0, err |-> Nil, out |-> <<>>,
               off0 |-> 0, lastRead0 |-> opInvalid]
    /\ prev = NoRune
    /\ th = [g \in Goroutines |-> Idle]
    /\ w = EmptySink

\* goroutine i makes its call
Start(i, g) ==
    /\ th' = [th EXCEPT ![i] = g]
    /\ UNCHANGED <<s, off, lastRead, last, prev, w>>

\* goroutine i executes a statement, with the outcome res
Step(i, res) ==
    /\ s' = res.r.s
    /\ off' = res.r.off
    /\ lastRead' = res.r.lastRead
    /\ th' = [th EXCEPT ![i] = res.g]
    /\ UNCHANGED <<last, prev, w>>

Running(i, op) == th[i].op = op /\ th[i].pc # "done"

\* as in TestReaderAtConcurrent, goroutine i reads at offset i - 1; also
\* one before it, which for the first goroutine is a negative offset
GoReadAt ==
    \E i \in 1 .. NThreads :
        \E at \in {i - 2, i - 1} :
            /\ th[i].op = "idle"
            /\ Start(i, Go("ReadAt", "L78", MaxBuf, at, Nil))

\* as in TestEmptyReaderConcurrent: Read(nil) and Read(buf[:]) of one byte
GoRead ==
    \E i \in 1 .. NThreads, lenp \in {0, 1} :
        /\ th[i].op = "idle"
        /\ Start(i, Go("Read", "L62", lenp, 0, Nil))

\* goroutine 0 calls one of the methods that move the cursor
GoMutator ==
    \E g \in {Go("Read", "L62", lenp, 0, Nil) : lenp \in BufLens}
            \cup {Go("ReadByte", "L95", 0, 0, Nil)}
            \cup {Go("ReadRune", "L119", 0, 0, Nil)}
            \cup {Go("Seek", "L151", offset, whence, Nil) :
                     offset \in {-1, 1}, whence \in Whences}
            \cup {Go("WriteTo", "L172", cap, 0, werr) :
                     cap \in {0, 1, MaxLen}, werr \in SinkErrs} :
        /\ th[0].op = "idle"
        /\ Start(0, g)

StepRead ==
    \E i \in Goroutines :
        /\ Running(i, "Read")
        /\ Step(i, ReadSteps(R, th[i]))

StepReadAt ==
    \E i \in Goroutines :
        /\ Running(i, "ReadAt")
        /\ Step(i, ReadAtSteps(R, th[i]))

StepReadByte ==
    \E i \in Goroutines :
        /\ Running(i, "ReadByte")
        /\ Step(i, ReadByteSteps(R, th[i]))

StepReadRune ==
    \E i \in Goroutines :
        /\ Running(i, "ReadRune")
        /\ Step(i, ReadRuneSteps(R, th[i]))

StepSeek ==
    \E i \in Goroutines :
        /\ Running(i, "Seek")
        /\ Step(i, SeekSteps(R, th[i]))

StepWriteTo ==
    \E i \in Goroutines :
        /\ Running(i, "WriteTo")
        /\ Step(i, WriteToSteps(R, th[i]))

\* ReadAt calls at the same time as each other and as one call that moves
\* the cursor
NextAt ==
    \/ GoReadAt
    \/ GoMutator
    \/ StepReadAt
    \/ StepRead
    \/ StepReadByte
    \/ StepReadRune
    \/ StepSeek
    \/ StepWriteTo

SpecAt == InitConc /\ [][NextAt]_vars

\* Read calls at the same time as each other
NextRead ==
    \/ GoRead
    \/ StepRead

SpecRead == InitConc /\ [][NextRead]_vars

\* ------------------------------------------------------ reading forward
\* A caller that keeps calling Read with a non-empty buffer, and between
\* these Reads makes only calls that are no Seek, unread or Reset.

\* r.Read(p) with len(p) > 0
FwdRead ==
    \E lenp \in 1 .. MaxBuf :
        /\ Alone
        /\ Call("Read", [NoArgs EXCEPT !.a = lenp], Read(R, lenp))

NextFwd ==
    \/ FwdRead
    \/ DoReadByte
    \/ DoReadRune
    \/ DoReadAt
    \/ DoWriteTo

\* the caller does not stop calling Read
SpecFwd == InitConc /\ [][NextFwd]_vars /\ WF_vars(FwdRead)

\* ------------------------------------------------------------ properties
\* In a step of the caller, prev is the call two before the one the step
\* makes, last the call just before it, and last' the call the step makes.

RuneOps == {opReadRune1, opReadRune2, opReadRune3, opReadRune4}

\* the calls C1 lists between the ReadRune and the UnreadRune
Intervening == {"Read", "ReadByte", "UnreadByte", "Seek", "WriteTo"}

\* C1, as claimed: after a successful ReadRune, one call of Read, ReadByte,
\* UnreadByte, Seek or WriteTo (whatever its arguments and its result) makes
\* the following UnreadRune fail with the "previous operation was not
\* ReadRune" error and leave the position alone.
C1_UnreadRuneAfterAnyCall ==
    [][(prev.op = "ReadRune" /\ last.op \in Intervening /\ last'.op = "UnreadRune")
          => (last'.err = ErrUnreadRune /\ off' = off)]_vars

\* C1, amended: the same, except when the intervening call is a Read made
\* with the position at or past the end of the buffer. That Read returns
\* (0, EOF) and leaves lastRead alone, so the following UnreadRune succeeds
\* and moves the position back by the width of the rune.
C1_UnreadRuneAfterCall ==
    [][(prev.op = "ReadRune" /\ last.op \in Intervening /\ last'.op = "UnreadRune")
          => IF last.op = "Read" /\ last.off0 >= Len(s)
             THEN /\ last.err = EOF /\ last.n = 0
                  /\ last'.err = Nil
                  /\ off' = off - prev.n
                  /\ off' = prev.off0
             ELSE /\ last'.err = ErrUnreadRune
                  /\ off' = off]_vars

\* a Read into an empty buffer, below the end of the buffer, has been made
\* right after a ReadRune of a multi-byte rune
C1_Witness ==
    /\ prev.op = "ReadRune"
    /\ prev.n > 1
    /\ last.op = "Read"
    /\ last.off0 < Len(s)
    /\ last.n = 0
    /\ lastRead = opInvalid

\* C2: a ReadRune made at a position below len(data) returns a width w; one
\* UnreadRune right after it succeeds and puts the position back where it was
\* before the ReadRune, w bytes earlier; the ReadRune after that returns the
\* same rune and the same width.
C2_RoundTrip ==
    /\ [](/\ (last.op = "ReadRune" /\ last.off0 < Len(s)) => last.err = Nil
          /\ (last.op = "UnreadRune" /\ prev.op = "ReadRune")
                => /\ last.err = Nil
                   /\ off = prev.off0
                   /\ off = last.off0 - prev.n)
    /\ [][(prev.op = "ReadRune" /\ last.op = "UnreadRune" /\ last'.op = "ReadRune")
             => /\ last'.err = Nil
                /\ last'.n = prev.n
                /\ last'.out = prev.out
                /\ off' = off + prev.n]_vars

\* a rune of three bytes has been read and unread
C2_Witness ==
    /\ last.op = "UnreadRune"
    /\ prev.op = "ReadRune"
    /\ prev.n = 3
    /\ last.err = Nil
    /\ off = prev.off0

\* C3: of two consecutive UnreadRune calls at most one succeeds: right after
\* an UnreadRune that succeeded, an UnreadRune fails and leaves the position
\* where it was.
C3_OneStepOfUndo ==
    /\ (last.op = "UnreadRune" /\ prev.op = "UnreadRune")
          => /\ last.err = ErrUnreadRune
             /\ off = last.off0
    /\ (last.op = "UnreadRune" /\ last.lastRead0 \notin RuneOps)
          => /\ last.err = ErrUnreadRune
             /\ off = last.off0

\* the second of two consecutive UnreadRune calls has failed, at a position
\* where a rune lies before the cursor
C3_Witness ==
    /\ last.op = "UnreadRune"
    /\ prev.op = "UnreadRune"
    /\ last.err = ErrUnreadRune
    /\ Len(s) > 0

\* the position Seek(offset, whence) asks for, as an integer
SeekCandidate(off0, offset, whence) ==
    IF whence = SeekCurrent THEN off0 + offset
    ELSE IF whence = SeekEnd THEN Len(s) + offset
    ELSE offset

\* C4: the position is never negative, whatever calls are made (WriteTo with
\* a sink that accepts between 0 and the number of bytes offered); a call
\* that would make it negative fails and leaves it as it was.
C4_PositionNeverNegative ==
    /\ off >= 0
    /\ (last.op = "UnreadByte" /\ last.off0 - 1 < 0)
          => (last.err = ErrUnreadByte /\ off = last.off0)
    /\ (last.op = "UnreadRune" /\ last.lastRead0 > 0
                               /\ last.off0 - last.lastRead0 < 0)
          => (last.err # Nil /\ off = last.off0)
    /\ (last.op = "Seek" /\ last.b \in {SeekStart, SeekCurrent, SeekEnd}
                         /\ SeekCandidate(last.off0, last.a, last.b) < 0)
          => (last.err = ErrNegativePosition /\ off = last.off0)

\* an UnreadByte at position 0, or a Seek to before the start, has failed
C4_Witness ==
    /\ off = 0
    /\ \/ last.op = "UnreadByte" /\ last.err = ErrUnreadByte
       \/ last.op = "Seek" /\ last.err = ErrNegativePosition /\ last.b = SeekEnd

\* C5, as claimed: Seek with a valid whence takes offset, position + offset
\* or len(data) + offset as the candidate; a candidate >= 0 becomes the
\* position and is returned with no error; a negative one makes Seek return
\* an error and keep the position.
C5_SeekCandidate ==
    (last.op = "Seek" /\ last.b \in {SeekStart, SeekCurrent, SeekEnd})
        => LET cand == SeekCandidate(last.off0, last.a, last.b)
           IN  IF cand >= 0
               THEN off = cand /\ last.n = cand /\ last.err = Nil
               ELSE last.err # Nil /\ off = last.off0

\* C6, as claimed: a Seek to a position greater than len(data) succeeds and
\* stores that position; from there Read, ReadByte and ReadRune return EOF and
\* consume nothing, and the position stays until a Seek, an unread or a Reset.
C6_SeekPastEnd ==
    /\ [](/\ (last.op = "Seek" /\ last.b \in {SeekStart, SeekCurrent, SeekEnd}
                /\ SeekCandidate(last.off0, last.a, last.b) > Len(s))
               => /\ last.err = Nil
                  /\ off = SeekCandidate(last.off0, last.a, last.b)
          /\ (last.op \in {"Read", "ReadByte", "ReadRune"} /\ last.off0 > Len(s))
               => /\ last.err = EOF
                  /\ last.n = 0
                  /\ off = last.off0)
    /\ [][(off > Len(s) /\ off' # off)
             => last'.op \in {"Seek", "UnreadByte", "UnreadRune", "Reset"}]_vars

\* C7: ReadAt leaves s, off and lastRead as they were, whatever its buffer
\* and offset; so an UnreadRune still succeeds when a ReadAt was made between
\* it and the ReadRune, and the same ReadAt made again returns the same.
C7_ReadAtLeavesCursor ==
    /\ [][last'.op = "ReadAt"
             => (s' = s /\ off' = off /\ lastRead' = lastRead)]_vars
    /\ [][(prev.op = "ReadRune" /\ last.op = "ReadAt" /\ last'.op = "UnreadRune")
             => (last'.err = Nil /\ off' = prev.off0)]_vars
    /\ [][(last.op = "ReadAt" /\ last'.op = "ReadAt"
                              /\ last'.a = last.a /\ last'.b = last.b)
             => (last'.n = last.n /\ last'.err = last.err
                                  /\ last'.out = last.out)]_vars

\* a ReadAt that delivered bytes has been made right after a ReadRune, and
\* the rune is still there to unread
C7_Witness ==
    /\ prev.op = "ReadRune"
    /\ last.op = "ReadAt"
    /\ last.n > 0
    /\ lastRead \in RuneOps
    /\ off = prev.off0 + prev.n

\* C8: ReadAt(buffer, offset) returns (0, negative-offset error) for a
\* negative offset and (0, EOF) for an offset >= len(data), also with an empty
\* buffer; otherwise it delivers the n = min(len(buffer), len(data) - offset)
\* bytes data[offset .. offset+n-1], with EOF exactly when n < len(buffer).
C8_ReadAtResult ==
    last.op = "ReadAt"
        => LET lenp == last.a
               at == last.b
               n == IF lenp < Len(s) - at THEN lenp ELSE Len(s) - at
           IN  IF at < 0
               THEN last.n = 0 /\ last.err = ErrNegativeOffset
               ELSE IF at >= Len(s)
               THEN last.n = 0 /\ last.err = EOF
               ELSE /\ last.n = n
                    /\ last.out = [i \in 1 .. n |-> s[at + i]]
                    /\ last.err = (IF n < lenp THEN EOF ELSE Nil)

\* a ReadAt near the end has delivered fewer bytes than the buffer holds
C8_Witness ==
    /\ last.op = "ReadAt"
    /\ last.b > 0
    /\ last.n > 0
    /\ last.n < last.a
    /\ last.err = EOF

\* g has written no field of the Reader
NoWrite(g) == \A a \in g.acc : a[2] = "r"

\* two goroutines have touched one field, and one of them wrote it
Conflict(g, h) ==
    \E a \in g.acc, b \in h.acc : a[1] = b[1] /\ "w" \in {a[2], b[2]}

\* C9: ReadAt calls made at the same time as each other, and as a Read,
\* ReadByte, ReadRune, Seek or WriteTo of another goroutine, return each what
\* the same call returns when made alone on the same data: ReadAt reads
\* nothing but s, writes no field, and no other call writes s.
C9_ConcurrentReadAt ==
    \A i \in Goroutines :
        th[i].op = "ReadAt"
            => /\ th[i].acc \subseteq {<<"s", "r">>}
               /\ \A j \in Goroutines \ {i} : ~Conflict(th[i], th[j])
               /\ th[i].pc = "done"
                     => LET alone == ReadAt(New(s), th[i].a, th[i].b)
                        IN  /\ th[i].n = alone.n
                            /\ th[i].err = alone.err
                            /\ th[i].out = alone.out

\* one ReadAt is about to copy and another has returned bytes, while the
\* third goroutine has moved the cursor off the offset either reads at
C9_Witness ==
    /\ th[1].op = "ReadAt" /\ th[1].pc = "L86"
    /\ th[2].op = "ReadAt" /\ th[2].pc = "done" /\ th[2].n > 0
    /\ th[0].pc = "done" /\ <<"off", "w">> \in th[0].acc
    /\ off \notin {th[1].b, th[2].b}

\* C10, as claimed: a Read that transfers no bytes, because the position is
\* at or past the end or because the destination is empty, writes neither
\* off nor lastRead; so such Reads made at the same time do not conflict, and
\* each returns what it returns when made alone.
C10_ZeroYieldReads ==
    \A i \in 1 .. NThreads :
        (th[i].op = "Read" /\ th[i].pc = "done" /\ th[i].n = 0)
            => /\ NoWrite(th[i])
               /\ \A j \in 1 .. NThreads \ {i} :
                     (th[j].op = "Read" /\ th[j].pc = "done" /\ th[j].n = 0)
                         => ~Conflict(th[i], th[j])

\* C11: Read(p) at a position at or past the end returns (0, EOF), for an
\* empty p too, and leaves the position; below the end it delivers the
\* n = min(len(p), len(data) - position) bytes that start at the position,
\* advances the position by n and returns (n, nil), which for an empty p is
\* (0, nil) with the position unchanged.
C11_ReadResult ==
    last.op = "Read"
        => IF last.off0 >= Len(s)
           THEN /\ last.n = 0 /\ last.err = EOF /\ last.out = <<>>
                /\ off = last.off0
           ELSE LET n == Min(last.a, Len(s) - last.off0)
                IN  /\ last.n = n /\ last.err = Nil
                    /\ last.out = [i \in 1 .. n |-> s[last.off0 + i]]
                    /\ off = last.off0 + n
                    /\ last.a = 0 => (last.n = 0 /\ off = last.off0)

\* a Read from the middle of the data has delivered the bytes left, which
\* are fewer than p holds
C11_Witness ==
    /\ last.op = "Read" /\ last.err = Nil
    /\ last.off0 > 0
    /\ 0 < last.n /\ last.n < last.a
    /\ off = Len(s)

\* C12: in every state Len() is max(0, len(data) - position): never negative,
\* 0 when the position is at or past the end, else the number of unread bytes.
C12_LenIsUnread ==
    /\ LenOf(R) >= 0
    /\ LenOf(R) = (IF Len(s) - off > 0 THEN Len(s) - off ELSE 0)
    /\ off >= Len(s) => LenOf(R) = 0

\* a Seek has put the position beyond the end of non-empty data
C12_Witness ==
    /\ last.op = "Seek" /\ last.err = Nil
    /\ Len(s) > 0 /\ off > Len(s)
    /\ LenOf(R) = 0

\* C13: no call but Reset changes Size() or the data, whether it succeeds or
\* fails.
C13_SizeUnaffected ==
    [][last'.op # "Reset" => (Size(R') = Size(R) /\ s' = s)]_vars

\* after a WriteTo that moved the position and failed, Size() is still the
\* length of the data
C13_Witness ==
    /\ last.op = "WriteTo" /\ last.err = ErrSink
    /\ off > last.off0
    /\ Size(R) = Len(s) /\ Size(R) > LenOf(R)

\* C20: UnreadByte fails, and leaves position and lastRead, exactly when the
\* position is <= 0; in any other state, whatever lastRead is, it succeeds,
\* steps the position back by 1, and an UnreadRune after it fails.
C20_UnreadByte ==
    last.op = "UnreadByte"
        => IF last.off0 =< 0
           THEN /\ last.err = ErrUnreadByte
                /\ off = last.off0 /\ lastRead = last.lastRead0
           ELSE /\ last.err = Nil
                /\ off = last.off0 - 1
                /\ UnreadRune(R).err = ErrUnreadRune
                /\ UnreadRune(R).r = R

\* UnreadByte has succeeded from beyond the end, where no read put the
\* position, and with no read to undo
C20_Witness ==
    /\ last.op = "UnreadByte" /\ last.err = Nil
    /\ last.off0 > Len(s)
    /\ last.lastRead0 = opInvalid

\* the Reader as the latest call found it (no call but Reset changes the data)
R0 == [s |-> s, off |-> last.off0, lastRead |-> last.lastRead0]

\* data[position ..] for the position the latest call found
Unread0 == [i \in 1 .. LenOf(R0) |-> s[last.off0 + i]]

\* C14: WriteTo at a position at or past the end does not call the sink's
\* Write, returns (0, nil), not EOF, and leaves the position.
C14_WriteToAtEnd ==
    (last.op = "WriteTo" /\ last.off0 >= Len(s))
        => /\ w.calls = 0 /\ w.buf = <<>>
           /\ last.n = 0 /\ last.err = Nil
           /\ off = last.off0

\* WriteTo was made beyond the end of non-empty data, with a sink that
\* returns an error from every Write
C14_Witness ==
    /\ last.op = "WriteTo" /\ last.werr = ErrSink
    /\ Len(s) > 0 /\ last.off0 > Len(s)
    /\ w.calls = 0

\* C15: WriteTo below the end, with a sink that takes all it is offered,
\* makes one Write of exactly data[position ..], returns (len(data) -
\* position, nil) and leaves the position at len(data), so that Len() is 0.
C15_WriteToAll ==
    (last.op = "WriteTo" /\ last.off0 < Len(s)
                         /\ last.a = Len(s) - last.off0 /\ last.werr = Nil)
        => /\ w.calls = 1
           /\ last.out = Unread0 /\ w.buf = Unread0
           /\ last.n = Len(s) - last.off0 /\ last.err = Nil
           /\ off = Len(s)
           /\ LenOf(R) = 0

\* WriteTo from the middle of the data has delivered two bytes or more
C15_Witness ==
    /\ last.op = "WriteTo" /\ last.err = Nil
    /\ last.off0 > 0
    /\ last.n >= 2 /\ Len(w.buf) = last.n
    /\ off = Len(s)

\* C16: when the sink takes m of the bytes offered, 0 <= m <= offered, the
\* position advances by m and m is the count returned; the error is the
\* sink's error if it returned one, else ErrShortWrite if m < offered, else
\* nil.
C16_WriteToCount ==
    (last.op = "WriteTo" /\ last.off0 < Len(s)
                         /\ 0 =< last.a /\ last.a =< Len(s) - last.off0)
        => /\ off = last.off0 + last.a
           /\ last.n = last.a
           /\ last.err = IF last.werr # Nil THEN last.werr
                         ELSE IF last.a < Len(s) - last.off0 THEN ErrShortWrite
                         ELSE Nil

\* the sink took some of the bytes offered, not all, and returned an error
C16_Witness ==
    /\ last.op = "WriteTo" /\ last.werr = ErrSink
    /\ 0 < last.a /\ last.a < Len(s) - last.off0
    /\ last.err = ErrSink
    /\ off = last.off0 + last.a

\* C17: when the sink reports more bytes than it was offered, WriteTo
\* panics and the position is what it was before the call.
C17_WriteToPanics ==
    (last.op = "WriteTo" /\ last.off0 < Len(s)
                         /\ last.a > Len(s) - last.off0)
        => /\ last.err = PanicWriteCount
           /\ off = last.off0

\* WriteTo from the middle of the data has panicked
C17_Witness ==
    /\ last.op = "WriteTo" /\ last.err = PanicWriteCount
    /\ last.off0 > 0 /\ off = last.off0
    /\ w.calls = 1 /\ last.a = Len(last.out) + 1

\* the two drains delivered the same bytes, returned the same count and
\* error and left the same position
SameDrain(x, y) ==
    /\ x.out = y.out
    /\ x.n = y.n
    /\ x.err = y.err
    /\ x.r.off = y.r.off

\* C18: with a sink that takes all it is offered, io.Copy's loop of Reads
\* into a non-empty buffer and WriteTo, made from the same state, deliver
\* the same bytes, return the same count and a nil error, and leave the same
\* position; (0, nil) when nothing is left.
C18_CopyAsWriteTo ==
    LET here == [r |-> R, n |-> last.n, err |-> last.err, out |-> w.buf]
    IN  /\ last.op = "Copy"
              => /\ SameDrain(here, WriteTo(R0, LenOf(R0), Nil))
                 /\ last.err = Nil
                 /\ LenOf(R0) = 0 => last.n = 0
        /\ (last.op = "WriteTo" /\ last.a = LenOf(R0) /\ last.werr = Nil)
              => /\ \A lenp \in 1 .. MaxBuf :
                        SameDrain(here, CopyBuffer(R0, lenp))
                 /\ last.err = Nil
                 /\ LenOf(R0) = 0 => last.n = 0

\* io.Copy has delivered the rest of the data, from the middle of it, in
\* two Writes or more
C18_Witness ==
    /\ last.op = "Copy"
    /\ last.off0 > 0
    /\ w.calls >= 2 /\ Len(w.buf) >= 2

\* C19: after Reset(q), from any state, the Reader is what New(q) returns:
\* position 0, lastRead opInvalid, Size() = len(q); so UnreadRune fails,
\* also when the call before the Reset was a ReadRune, and reading to the
\* end delivers exactly q.
C19_ResetIsNew ==
    last.op = "Reset"
        => /\ R = New(last.q)
           /\ off = 0 /\ lastRead = opInvalid
           /\ Size(R) = Len(last.q)
           /\ UnreadRune(R).err = ErrUnreadRune
           /\ \A lenp \in 1 .. MaxBuf : CopyBuffer(R, lenp).out = last.q

\* Reset to non-empty data was called right after a ReadRune had succeeded
C19_Witness ==
    /\ last.op = "Reset"
    /\ prev.op = "ReadRune"
    /\ last.lastRead0 \in RuneOps /\ last.off0 > 0
    /\ Len(last.q) > 0

\* C21: a Seek that fails, because the candidate is negative or the whence
\* is none of the three, returns an error, leaves the position and the data,
\* and sets lastRead to opInvalid; so UnreadRune fails after it, also where it
\* would have succeeded before it.
C21_FailedSeekResets ==
    (last.op = "Seek"
        /\ \/ last.b \notin {SeekStart, SeekCurrent, SeekEnd}
           \/ SeekCandidate(last.off0, last.a, last.b) < 0)
        => /\ last.err # Nil
           /\ off = last.off0
           /\ lastRead = opInvalid
           /\ UnreadRune(R).err = ErrUnreadRune
           /\ UnreadRune(R).r = R

\* a Seek has failed right after a ReadRune had succeeded
C21_Witness ==
    /\ last.op = "Seek" /\ last.err \in {ErrWhence, ErrNegativePosition}
    /\ prev.op = "ReadRune"
    /\ last.lastRead0 \in RuneOps
    /\ off = last.off0 /\ lastRead = opInvalid

\* C22: ReadRune below the end succeeds, returns a size w in 1..4, advances
\* the position by w, never past the end, and sets lastRead to w; an
\* encoding that is invalid or cut short by the end takes 1 byte. At or past
\* the end it returns (0, 0, EOF), leaves the position and sets lastRead to
\* opInvalid.
C22_ReadRune ==
    last.op = "ReadRune"
        => IF last.off0 < Len(s)
           THEN /\ last.err = Nil
                /\ 1 =< last.n /\ last.n =< 4
                /\ off = last.off0 + last.n
                /\ off =< Len(s)
                /\ lastRead = last.n
                /\ last.out = <<RuneError>> => last.n \in {1, 3}
           ELSE /\ last.n = 0 /\ last.out = <<0>> /\ last.err = EOF
                /\ off = last.off0
                /\ lastRead = opInvalid

\* ReadRune has taken, as one byte, the first byte of an encoding of two
\* bytes or more that the end of the data cuts short
C22_Witness ==
    /\ last.op = "ReadRune" /\ last.err = Nil
    /\ last.n = 1 /\ last.out = <<RuneError>>
    /\ off = Len(s)
    /\ First(s[off]).size >= 2

\* C23, as claimed: the sum Seek makes for SeekCurrent and SeekEnd does not
\* wrap: when position + offset, or len(data) + offset, is >= 0 as an
\* integer, Seek succeeds and the position is that integer; it does not
\* return the "negative position" error.
C23_SeekNeverWraps ==
    (last.op = "Seek" /\ last.b \in {SeekCurrent, SeekEnd}
                      /\ SeekCandidate(last.off0, last.a, last.b) >= 0)
        => /\ last.err # ErrNegativePosition
           /\ last.err = Nil
           /\ off = SeekCandidate(last.off0, last.a, last.b)

\* C24, as claimed: whatever count the sink reports, a negative one too,
\* WriteTo does not move the position back: it panics and leaves the
\* position, or advances it by 0 .. the number of bytes offered; so the
\* position does not become negative.
C24_WriteToNeverBackwards ==
    /\ off >= 0
    /\ last.op = "WriteTo"
          => /\ off >= last.off0
             /\ off - last.off0 =< LenOf(R0)
             /\ last.err \in {PanicWriteCount, PanicBounds} => off = last.off0

\* C25: a caller that keeps calling Read with a non-empty buffer gets EOF:
\* each Read that succeeds takes 1 byte or more off Len(), and a Read at
\* Len() = 0 returns EOF, so EOF comes after Len() successful Reads at most.
\* Once Read has returned EOF, every Read, ReadByte and ReadRune returns EOF,
\* as long as no Seek, UnreadByte, UnreadRune or Reset is called.
C25_ForwardReading ==
    /\ <>(last.op = "Read" /\ last.err = EOF)
    /\ [][(last'.op = "Read" /\ last'.a > 0 /\ last'.err = Nil)
             => (last'.n >= 1 /\ LenOf(R') = LenOf(R) - last'.n)]_vars
    /\ [][(last'.op = "Read" /\ LenOf(R) = 0) => last'.err = EOF]_vars
    /\ []((last.op = "Read" /\ last.err = EOF)
             => [](last.op \in {"Read", "ReadByte", "ReadRune"}
                      => last.err = EOF))

\* Read returns EOF at the end of data that a Read or ReadByte before it
\* has taken bytes from
C25_Witness ==
    /\ last.op = "Read" /\ last.a > 0 /\ last.err = EOF
    /\ Len(s) > 0 /\ off = Len(s)
    /\ lastRead = opRead

====
